---------------------------- MODULE Spec2Model ----------------------------
(***************************************************************************)
(* Model of the Silicon Labs BGAPI protocol definition of perilib:         *)
(* src/SilabsBGAPIProtocol.py (registry, frame detector, buffer -> packet, *)
(* name -> packet), src/SilabsBGAPIPacket.py (header encoder) and the      *)
(* header encoder and decoder of the legacy module src/silabs_bgapi.py.    *)
(*                                                                         *)
(* Python values are modelled as follows.  A bytes object is the record    *)
(* [type |-> "bytes", data |-> <<b1, ..., bn>>] with every b in 0..255; a  *)
(* str literal compared with a bytes object is [type |-> "str", ...], so   *)
(* that Python 3's bytes/str comparison (never equal) is what the model    *)
(* computes.  Packet names are TLA+ strings.  A dict with integer keys and *)
(* a "name" key is [name, order, at]: order is the insertion order of the  *)
(* integer keys (the order a for loop visits them), at the mapping.        *)
(***************************************************************************)
EXTENDS Integers, Sequences, FiniteSets, TLC

VARIABLES
    buffer,     \* the receive buffer the transport accumulates (bytes)
    status,     \* test_packet_complete's result for the current buffer
    commands,   \* SilabsBGAPIProtocol.commands (class attribute, mutable)
    events,     \* SilabsBGAPIProtocol.events (class attribute, mutable)
    request,    \* what the caller asks for: a name to build or a frame to parse
    tx,         \* outcome of the last get_packet_from_name_and_args call
    rx          \* outcome of the last get_packet_from_buffer call

vars == <<buffer, status, commands, events, request, tx, rx>>

---------------------------------------------------------------------------
(* Bounds of the model.                                                    *)

\* Longest receive buffer: 4 header bytes, 2047 payload bytes, one more.
MaxBuf == 2052

---------------------------------------------------------------------------
(* Integer and bytes helpers (Python's &, |, <<, >>, struct).              *)

RECURSIVE BitAnd(_, _)
BitAnd(a, b) ==
    IF a = 0 \/ b = 0 THEN 0
    ELSE (a % 2) * (b % 2) + 2 * BitAnd(a \div 2, b \div 2)

RECURSIVE BitOr(_, _)
BitOr(a, b) ==
    IF a = 0 THEN b
    ELSE IF b = 0 THEN a
    ELSE (IF a % 2 = 1 \/ b % 2 = 1 THEN 1 ELSE 0) + 2 * BitOr(a \div 2, b \div 2)

ShiftL(a, k) == a * (2 ^ k)

ShiftR(a, k) == a \div (2 ^ k)

Bytes(seq) == [type |-> "bytes", data |-> seq]

Str(seq) == [type |-> "str", data |-> seq]

\* buffer[i:j] of a bytes object (0-based, end exclusive, clamped).
Slice(b, i, j) ==
    Bytes(SubSeq(b.data, i + 1, IF j < Len(b.data) THEN j ELSE Len(b.data)))

\* struct.unpack(">H", b): one big-endian unsigned 16-bit integer.
unpack_H(b) == b.data[1] * 256 + b.data[2]

\* struct.unpack("4B", b): four unsigned bytes.
unpack_4B(b) == <<b.data[1], b.data[2], b.data[3], b.data[4]>>

Zeros(n) == [i \in 1..n |-> 0]

---------------------------------------------------------------------------
(* perilib.ParseStatus and the frame detector.                             *)

IDLE == "IDLE"

IN_PROGRESS == "IN_PROGRESS"

COMPLETE == "COMPLETE"

\* The literal "\x00\x00\x00\x00" of line 295: a str, not a bytes object.
ZeroHeaderLiteral == Str(<<0, 0, 0, 0>>)

\* The mask applied to the 16-bit big-endian word of the first two bytes.
LengthMask(word) == BitAnd(word, 1023)

\* The detector with "at least" for "exactly" the declared length.
test_packet_complete_at_least(buf) ==
    IF Len(buf.data) > 3
    THEN LET payload_length == LengthMask(unpack_H(Slice(buf, 0, 2)))
         IN  IF Len(buf.data) >= payload_length + 4
             THEN (IF buf # ZeroHeaderLiteral THEN COMPLETE ELSE IDLE)
             ELSE IN_PROGRESS
    ELSE IN_PROGRESS

test_packet_complete(buf) ==
    IF Len(buf.data) > 3
    THEN LET payload_length == LengthMask(unpack_H(Slice(buf, 0, 2)))
         IN  IF Len(buf.data) = payload_length + 4
             THEN (IF buf # ZeroHeaderLiteral THEN COMPLETE ELSE IDLE)
             ELSE IN_PROGRESS
    ELSE IN_PROGRESS

---------------------------------------------------------------------------
(* SilabsBGAPIPacket: the three packet types.                              *)

TYPE_COMMAND == 0

TYPE_RESPONSE == 1

TYPE_EVENT == 2

TYPE_ARG_CONTEXT == <<"command_args", "response_args", "event_args">>

---------------------------------------------------------------------------
(* SilabsBGAPIProtocol: header_args and the registry as the class body     *)
(* defines it.                                                             *)

header_args ==
    <<[name |-> "type", type |-> "uint8"],
      [name |-> "length", type |-> "uint8"],
      [name |-> "group", type |-> "uint8"],
      [name |-> "method", type |-> "uint8"]>>

commands_def ==
    [order |-> <<0, 1, 4>>,
     at |-> (0 :> [name |-> "ble",
             order |-> <<0>>,
             at |-> (0 :> [name |-> "system",
                     order |-> <<1>>,
                     at |-> (1 :> [name |-> "hello",
                             response_required |-> "ble_rsp_system_hello",
                             command_args |-> <<>>,
                             response_args |-> <<>>])])]
         @@ 1 :> [name |-> "wifi",
             order |-> <<>>,
             at |-> <<>>]
         @@ 4 :> [name |-> "dumo",
             order |-> <<1, 2, 4, 11, 12, 15>>,
             at |-> (1 :> [name |-> "system",
                     order |-> <<0, 8>>,
                     at |-> (0 :> [name |-> "hello",
                             response_required |-> "dumo_rsp_system_hello",
                             command_args |-> <<>>,
                             response_args |-> <<[name |-> "result", type |-> "uint16"]>>]
                        @@ 8 :> [name |-> "set_local_name",
                             response_required |-> "dumo_rsp_system_set_local_name",
                             command_args |-> <<[name |-> "name", type |-> "uint8a-l8v"]>>,
                             response_args |-> <<[name |-> "result", type |-> "uint16"]>>])]
                @@ 2 :> [name |-> "bt_gap",
                     order |-> <<3>>,
                     at |-> (3 :> [name |-> "set_mode",
                             response_required |-> "dumo_rsp_bt_gap_set_mode",
                             command_args |-> <<[name |-> "connectable", type |-> "uint8"], [name |-> "discoverable", type |-> "uint8"], [name |-> "limited", type |-> "uint8"]>>,
                             response_args |-> <<[name |-> "result", type |-> "uint16"]>>])]
                @@ 4 :> [name |-> "bt_rfcomm",
                     order |-> <<1>>,
                     at |-> (1 :> [name |-> "start_server",
                             response_required |-> "dumo_rsp_bt_rfcomm_start_server",
                             command_args |-> <<[name |-> "sdp_id", type |-> "uint8"], [name |-> "streaming_destination", type |-> "uint8"]>>,
                             response_args |-> <<[name |-> "result", type |-> "uint16"]>>])]
                @@ 11 :> [name |-> "endpoint",
                     order |-> <<0>>,
                     at |-> (0 :> [name |-> "send",
                             response_required |-> "dumo_rsp_endpoint_send",
                             command_args |-> <<[name |-> "endpoint", type |-> "uint8"], [name |-> "data", type |-> "uint8a-l8v"]>>,
                             response_args |-> <<[name |-> "result", type |-> "uint16"]>>])]
                @@ 12 :> [name |-> "hardware",
                     order |-> <<8>>,
                     at |-> (8 :> [name |-> "set_uart_configuration",
                             response_required |-> "dumo_rsp_hardware_set_uart_configuration",
                             command_args |-> <<[name |-> "endpoint", type |-> "uint8"], [name |-> "rate", type |-> "uint32"], [name |-> "data_bits", type |-> "uint8"], [name |-> "stop_bits", type |-> "uint8"], [name |-> "parity", type |-> "uint8"], [name |-> "flow_ctrl", type |-> "uint8"]>>,
                             response_args |-> <<[name |-> "result", type |-> "uint16"]>>])]
                @@ 15 :> [name |-> "sm",
                     order |-> <<0>>,
                     at |-> (0 :> [name |-> "set_bondable_mode",
                             response_required |-> "dumo_rsp_sm_set_bondable_mode",
                             command_args |-> <<[name |-> "bondable", type |-> "uint8"]>>,
                             response_args |-> <<[name |-> "result", type |-> "uint16"]>>])])])]

events_def ==
    [order |-> <<0, 1, 4>>,
     at |-> (0 :> [name |-> "ble",
             order |-> <<>>,
             at |-> <<>>]
         @@ 1 :> [name |-> "wifi",
             order |-> <<>>,
             at |-> <<>>]
         @@ 4 :> [name |-> "dumo",
             order |-> <<1, 4, 7, 11, 15>>,
             at |-> (1 :> [name |-> "system",
                     order |-> <<0, 1, 2>>,
                     at |-> (0 :> [name |-> "boot",
                             event_args |-> <<[name |-> "major", type |-> "uint16"], [name |-> "minor", type |-> "uint16"], [name |-> "patch", type |-> "uint16"], [name |-> "build", type |-> "uint16"], [name |-> "bootloader", type |-> "uint16"], [name |-> "hw", type |-> "uint16"]>>]
                        @@ 1 :> [name |-> "initialized",
                             event_args |-> <<[name |-> "address", type |-> "macaddr"]>>]
                        @@ 2 :> [name |-> "recovery",
                             event_args |-> <<[name |-> "id1", type |-> "uint32"], [name |-> "id2", type |-> "uint32"], [name |-> "data", type |-> "uint8a-l8v"]>>])]
                @@ 4 :> [name |-> "bt_rfcomm",
                     order |-> <<1>>,
                     at |-> (1 :> [name |-> "modem_status",
                             event_args |-> <<[name |-> "endpoint", type |-> "uint8"], [name |-> "modem", type |-> "uint8"]>>])]
                @@ 7 :> [name |-> "bt_connection",
                     order |-> <<0, 1, 2>>,
                     at |-> (0 :> [name |-> "opened",
                             event_args |-> <<[name |-> "address", type |-> "macaddr"], [name |-> "master", type |-> "uint8"], [name |-> "connection", type |-> "uint8"], [name |-> "bonding", type |-> "uint8"]>>]
                        @@ 1 :> [name |-> "closed",
                             event_args |-> <<[name |-> "reason", type |-> "uint16"], [name |-> "endpoint", type |-> "uint8"]>>]
                        @@ 2 :> [name |-> "parameters",
                             event_args |-> <<[name |-> "endpoint", type |-> "uint8"], [name |-> "block_size", type |-> "uint32"], [name |-> "msc", type |-> "uint8"], [name |-> "address", type |-> "macaddr"], [name |-> "direction", type |-> "uint8"], [name |-> "powermode", type |-> "uint8"], [name |-> "role", type |-> "uint8"], [name |-> "encryption", type |-> "uint8"], [name |-> "input_buffer", type |-> "uint32"], [name |-> "port", type |-> "uint8"]>>])]
                @@ 11 :> [name |-> "endpoint",
                     order |-> <<0, 1, 2, 3, 4>>,
                     at |-> (0 :> [name |-> "syntax_error",
                             event_args |-> <<[name |-> "result", type |-> "uint16"], [name |-> "endpoint", type |-> "uint8"]>>]
                        @@ 1 :> [name |-> "data",
                             event_args |-> <<[name |-> "endpoint", type |-> "uint8"], [name |-> "data", type |-> "uint8a-l8v"]>>]
                        @@ 2 :> [name |-> "status",
                             event_args |-> <<[name |-> "endpoint", type |-> "uint8"], [name |-> "type", type |-> "uint32"], [name |-> "destination_endpoint", type |-> "int8"], [name |-> "flags", type |-> "uint8"]>>]
                        @@ 3 :> [name |-> "closing",
                             event_args |-> <<[name |-> "reason", type |-> "uint16"], [name |-> "endpoint", type |-> "uint8"]>>]
                        @@ 4 :> [name |-> "closed",
                             event_args |-> <<[name |-> "endpoint", type |-> "uint8"]>>])]
                @@ 15 :> [name |-> "sm",
                     order |-> <<3>>,
                     at |-> (3 :> [name |-> "bonded",
                             event_args |-> <<[name |-> "connection", type |-> "uint8"], [name |-> "bonding", type |-> "uint8"]>>])])])]


\* d[k] for the integer keys of a registry level: is k a key?
HasKey(d, k) == k \in DOMAIN d.at

\* commands[t][g][m] / events[t][g][m] raises KeyError unless all three exist.
HasDefinition(search, t, g, m) ==
    /\ HasKey(search, t)
    /\ HasKey(search.at[t], g)
    /\ HasKey(search.at[t].at[g], m)

\* The assignment taken for an accumulation: header_args grows on a
\* definition that already carries it.
WithHeaderArgs_appended(d) ==
    [k \in DOMAIN d \cup {"header_args"} |->
        IF k # "header_args" THEN d[k]
        ELSE IF "header_args" \in DOMAIN d THEN d.header_args \o header_args
        ELSE header_args]

\* packet_definition["header_args"] = SilabsBGAPIProtocol.header_args
WithHeaderArgs(d) ==
    [k \in DOMAIN d \cup {"header_args"} |->
        IF k = "header_args" THEN header_args ELSE d[k]]

\* The assignment made one level up, on the group dict.
Stash_on_group(search, t, g, m) ==
    [search EXCEPT !.at[t].at[g] = WithHeaderArgs(@)]

\* The registry after the assignment above on the definition at (t, g, m).
Stash(search, t, g, m) ==
    [search EXCEPT !.at[t].at[g].at[m] = WithHeaderArgs(@)]


---------------------------------------------------------------------------
(* Outcomes of a call: no call yet, a raised exception, a returned packet. *)

None == [kind |-> "none"]

Raise(exception, message) ==
    [kind |-> "error", exception |-> exception, message |-> message]

IsPacket(o) == o.kind = "packet"

IsError(o) == o.kind = "error"

---------------------------------------------------------------------------
(* Python str operations used on packet names.                             *)

\* s[n:] and s[:n] of a str (clamped as Python slices are).
StrFrom(s, n) == IF n >= Len(s) THEN "" ELSE SubSeq(s, n + 1, Len(s))

StrUpTo(s, n) == IF n >= Len(s) THEN s ELSE SubSeq(s, 1, n)

\* s.find(c) for a one-character c: the 0-based index of the first c, or -1.
RECURSIVE find(_, _)
find(s, c) ==
    IF s = "" THEN -1
    ELSE IF Head(s) = c THEN 0
    ELSE LET r == find(Tail(s), c) IN IF r = -1 THEN -1 ELSE r + 1

\* s.split(sep, maxsplit=n) for a one-character sep.
RECURSIVE split(_, _, _)
split(s, sep, maxsplit) ==
    IF maxsplit = 0 \/ find(s, sep) = -1 THEN <<s>>
    ELSE <<StrUpTo(s, find(s, sep))>>
         \o split(StrFrom(s, find(s, sep) + 1), sep, maxsplit - 1)

RECURSIVE Flatten(_)
Flatten(ss) == IF ss = <<>> THEN <<>> ELSE Head(ss) \o Flatten(Tail(ss))

---------------------------------------------------------------------------
(* SilabsBGAPIPacket.prepare_buffer_after_building and the payload the     *)
(* packet class serializes before calling it.                              *)

\* What struct.pack yields when a value does not fit its format.
StructError == [type |-> "struct.error", data |-> <<>>]

\* struct.pack("4B", ...): every value must fit an unsigned byte.
pack_4B(vals) ==
    IF \A i \in 1..4 : vals[i] \in 0..255 THEN Bytes(vals) ELSE StructError

\* Byte 0 of the header: message type, technology type, length bits 10..8.
header_type_byte(metadata, payload_length) ==
    BitOr(BitOr(ShiftL(metadata.message_type, 7),
                ShiftL(metadata.technology_type, 3)),
          ShiftR(payload_length, 8))

\* The packet's buffer after the call, or the exception struct.pack raises.
prepare_buffer_after_building(metadata, buf) ==
    LET payload_length == Len(buf.data)
        header == pack_4B(<<header_type_byte(metadata, payload_length),
                            BitAnd(payload_length, 255),
                            metadata.group_id,
                            metadata.method_id>>)
    IN  IF header = StructError THEN header ELSE Bytes(header.data \o buf.data)

\* Serialized width of one argument; v is the length of a variable array.
ArgWidth(type, v) ==
    CASE type \in {"uint8", "int8"} -> 1
      [] type = "uint16" -> 2
      [] type = "uint32" -> 4
      [] type = "macaddr" -> 6
      [] type = "uint8a-l8v" -> 1 + v

\* One serialized argument (value zero; a variable array of v zero bytes).
pack_arg(type, v) ==
    IF type = "uint8a-l8v" THEN <<v>> \o Zeros(v) ELSE Zeros(ArgWidth(type, v))

\* The payload of a packet of the given type with valid arguments.
build_payload(definition, packet_type, v) ==
    LET args == definition[TYPE_ARG_CONTEXT[packet_type + 1]]
    IN  Bytes(Flatten([i \in 1..Len(args) |-> pack_arg(args[i].type, v)]))


---------------------------------------------------------------------------
(* SilabsBGAPIProtocol.get_packet_from_buffer.                             *)

\* message_type = (type_data & 0x80) >> 7
decode_message_type(type_data) == ShiftR(BitAnd(type_data, 128), 7)

\* A three-bit technology field, (type_data & 0x70) >> 4, in place of the
\* four-bit one.
decode_technology_type_3bit(type_data) == ShiftR(BitAnd(type_data, 112), 4)

\* technology_type = (type_data & 0x78) >> 3
decode_technology_type(type_data) == ShiftR(BitAnd(type_data, 120), 3)

\* payload_length += (type_data & 0x07)
decode_payload_length(type_data, length_byte) ==
    length_byte + BitAnd(type_data, 7)

\* The five values lines 302-305 compute from the first four bytes.
decode_header(buf) ==
    LET h == unpack_4B(Slice(buf, 0, 4))
    IN  [message_type |-> decode_message_type(h[1]),
         technology_type |-> decode_technology_type(h[1]),
         payload_length |-> decode_payload_length(h[1], h[2]),
         group_id |-> h[3],
         method_id |-> h[4]]

\* The direction ignored: every non-event frame taken as a response.
buffer_packet_type_rx_only(message_type, is_tx) ==
    IF message_type = 0 THEN TYPE_RESPONSE ELSE TYPE_EVENT

\* The packet type chosen from the message type and the caller's direction.
buffer_packet_type(message_type, is_tx) ==
    IF message_type = 0
    THEN (IF is_tx THEN TYPE_COMMAND ELSE TYPE_RESPONSE)
    ELSE TYPE_EVENT

\* The tokens of the two directions exchanged.
buffer_token_swapped(packet_type) ==
    CASE packet_type = TYPE_COMMAND -> "rsp"
      [] packet_type = TYPE_RESPONSE -> "cmd"
      [] packet_type = TYPE_EVENT -> "evt"

\* The kind token of the name built for a packet type.
buffer_token(packet_type) ==
    CASE packet_type = TYPE_COMMAND -> "cmd"
      [] packet_type = TYPE_RESPONSE -> "rsp"
      [] packet_type = TYPE_EVENT -> "evt"

\* The table the triple is looked up in.
buffer_table(message_type) == IF message_type = 0 THEN "commands" ELSE "events"

\* "%s_%s_%s_%s" % (technology name, token, group name, method name)
packet_name(search, token, t, g, m) ==
    search.at[t].name \o "_" \o token \o "_"
        \o search.at[t].at[g].name \o "_" \o search.at[t].at[g].at[m].name

\* A silent default: an absent method id falls back to the group's first
\* method instead of raising KeyError.
lookup_default_method(search, t, g, m) ==
    IF HasDefinition(search, t, g, m)
    THEN [found |-> TRUE, technology_type |-> t, group_id |-> g, method_id |-> m]
    ELSE IF HasKey(search, t) /\ HasKey(search.at[t], g)
    THEN [found |-> TRUE, technology_type |-> t, group_id |-> g,
          method_id |-> search.at[t].at[g].order[1]]
    ELSE [found |-> FALSE]

\* The lookup inside the try block: found or KeyError.
lookup(search, t, g, m) ==
    IF HasDefinition(search, t, g, m)
    THEN [found |-> TRUE, technology_type |-> t, group_id |-> g, method_id |-> m]
    ELSE [found |-> FALSE]

\* The call's outcome: the packet returned or the exception raised.  The
\* outcome records the call's arguments and the header values it computed.
get_packet_from_buffer(cmds, evts, buf, is_tx) ==
    LET h == decode_header(buf)
        packet_type == buffer_packet_type(h.message_type, is_tx)
        table == buffer_table(h.message_type)
        search == IF table = "commands" THEN cmds ELSE evts
        hit == lookup(search, h.technology_type, h.group_id, h.method_id)
    IN  IF ~hit.found
        THEN [kind |-> "error",
              exception |-> "PerilibProtocolException",
              message |-> "Could not find packet definition",
              buffer |-> buf, is_tx |-> is_tx, header |-> h]
        ELSE [kind |-> "packet",
              type |-> packet_type,
              name |-> packet_name(search, buffer_token(packet_type),
                                   hit.technology_type, hit.group_id, hit.method_id),
              table |-> table,
              definition |-> WithHeaderArgs(
                  search.at[hit.technology_type].at[hit.group_id].at[hit.method_id]),
              buffer |-> buf,
              metadata |-> [message_type |-> h.message_type,
                            technology_type |-> h.technology_type,
                            group_id |-> h.group_id,
                            method_id |-> h.method_id],
              is_tx |-> is_tx, header |-> h]

---------------------------------------------------------------------------
(* SilabsBGAPIProtocol.get_packet_from_name_and_args.                      *)

\* The table searched, the message type and the packet type for a kind token.
name_table(message_type_str) ==
    IF message_type_str = "evt" THEN "events" ELSE "commands"

name_message_type(message_type_str) ==
    IF message_type_str = "evt" THEN 1 ELSE 0

name_packet_type(message_type_str) ==
    IF message_type_str = "evt" THEN TYPE_EVENT
    ELSE IF message_type_str = "rsp" THEN TYPE_RESPONSE
    ELSE TYPE_COMMAND

\* Line 373: the group's name equals short_name[:len(group name)].
group_matches(group_name, short_name) ==
    group_name = StrUpTo(short_name, Len(group_name))

\* Off by one: the separator left at the head of the method name.
method_name_of_no_separator(group_name, short_name) ==
    StrFrom(short_name, Len(group_name))

\* Line 374: method_name = short_name[len(group name) + 1:].
method_name_of(group_name, short_name) ==
    StrFrom(short_name, Len(group_name) + 1)

\* The (technology, group, method) keys the three nested loops of lines
\* 368-378 accept, in the order the loops reach them.
find_definitions(search, technology_type_str, short_name) ==
    Flatten([i \in 1..Len(search.order) |->
        LET t == search.order[i]
            tech == search.at[t]
        IN  IF tech.name # technology_type_str THEN <<>>
            ELSE Flatten([j \in 1..Len(tech.order) |->
                LET g == tech.order[j]
                    group == tech.at[g]
                IN  IF ~group_matches(group.name, short_name) THEN <<>>
                    ELSE SelectSeq(
                        [k \in 1..Len(group.order) |-> <<t, g, group.order[k]>>],
                        LAMBDA key : group.at[key[3]].name
                                        = method_name_of(group.name, short_name))])])

\* The call's outcome: the packet returned (its buffer built from valid
\* arguments, v the length given to a variable array) or the exception.
get_packet_from_name_and_args(cmds, evts, _packet_name, v) ==
    LET parts == split(_packet_name, "_", 2)
    IN  IF Len(parts) # 3
        THEN [kind |-> "error",
              exception |-> "PerilibProtocolException",
              message |-> "Invalid packet name",
              requested |-> _packet_name]
        ELSE
        LET table == name_table(parts[2])
            search == IF table = "commands" THEN cmds ELSE evts
            packet_type == name_packet_type(parts[2])
            hits == find_definitions(search, parts[1], parts[3])
        IN  IF hits = <<>>
            THEN [kind |-> "error",
                  exception |-> "PerilibProtocolException",
                  message |-> "Unable to locate packet definition",
                  requested |-> _packet_name]
            ELSE
            LET key == hits[1]
                definition == WithHeaderArgs(search.at[key[1]].at[key[2]].at[key[3]])
                metadata == [message_type |-> name_message_type(parts[2]),
                             technology_type |-> key[1],
                             group_id |-> key[2],
                             method_id |-> key[3]]
                built == prepare_buffer_after_building(
                             metadata, build_payload(definition, packet_type, v))
            IN  IF built = StructError
                THEN [kind |-> "error",
                      exception |-> "struct.error",
                      message |-> "ubyte format requires 0 <= number <= 255",
                      requested |-> _packet_name,
                      table |-> table,
                      metadata |-> metadata]
                ELSE [kind |-> "packet",
                      type |-> packet_type,
                      name |-> _packet_name,
                      table |-> table,
                      definition |-> definition,
                      buffer |-> built,
                      metadata |-> metadata,
                      requested |-> _packet_name]


---------------------------------------------------------------------------
(* The legacy module src/silabs_bgapi.py: its header encoder               *)
(* (SilabsBGAPIPacket.prepare_buffer_after_building) and the header fields *)
(* its get_packet_from_buffer decodes.                                     *)

\* Byte 0 as the legacy encoder composes it: the technology type is shifted
\* by 6 and the high length bits by 3.
legacy_header_type_byte(metadata, payload_length) ==
    BitOr(BitOr(ShiftL(metadata.message_type, 7),
                ShiftL(metadata.technology_type, 6)),
          ShiftL(ShiftR(payload_length, 8), 3))

\* The legacy packet's buffer after the call, or the struct.pack exception.
legacy_prepare_buffer_after_building(metadata, buf) ==
    LET payload_length == Len(buf.data)
        header == pack_4B(<<legacy_header_type_byte(metadata, payload_length),
                            BitAnd(payload_length, 255),
                            metadata.group_id,
                            metadata.method_id>>)
    IN  IF header = StructError THEN header ELSE Bytes(header.data \o buf.data)

\* The locals the legacy get_packet_from_buffer derives from the header.
legacy_decode_header(buf) ==
    LET h == unpack_4B(Slice(buf, 0, 4))
    IN  [message_type |-> ShiftR(BitAnd(h[1], 128), 7),
         technology_type |-> ShiftR(BitAnd(h[1], 120), 3),
         payload_length |-> h[2] + BitAnd(h[1], 7),
         group_id |-> h[3],
         method_id |-> h[4]]

---------------------------------------------------------------------------
(* Inputs: the names, frames and bytes the callers pass in.                *)

\* The (technology, group, method) keys of a registry table.
Triples(search) ==
    UNION {UNION {{<<t, g, m>> : m \in DOMAIN search.at[t].at[g].at}
                  : g \in DOMAIN search.at[t].at}
           : t \in DOMAIN search.at}

\* <technology>_<kind token>_<group>_<method> of a registry entry.
DottedName(search, token, key) ==
    search.at[key[1]].name \o "_" \o token \o "_"
        \o search.at[key[1]].at[key[2]].name \o "_"
        \o search.at[key[1]].at[key[2]].at[key[3]].name

RegistryNames ==
    {DottedName(commands_def, token, key) :
        token \in {"cmd", "rsp"}, key \in Triples(commands_def)}
    \cup {DottedName(events_def, "evt", key) : key \in Triples(events_def)}

\* Names that do not follow the grammar or name nothing in the registry.
OtherNames ==
    {"ble_foo_system_hello", "ble__system_hello", "ble_CMD_system_hello",
     "dumo_cmd_systemXhello", "dumo_cmd_smXset_bondable_mode",
     "dumo_evt_endpointXdata", "dumo_rsp_system_hellox",
     "dumo_cmd_system_boot", "dumo_evt_system_hello", "dumo_cmd_system_",
     "dumo_cmd_system", "dumo_cmd_bt_gap", "wifi_cmd_system_hello",
     "zigbee_cmd_system_hello", "ble_cmd", "hello", ""}

NameSamples == RegistryNames \cup OtherNames

\* Lengths given to a variable-length byte array argument.
VarLens == {0, 255}

MessageTypeSamples == {0, 1}

TechnologySamples == {0, 1, 2, 4, 15}

GroupSamples == {0, 1, 2, 3, 4, 7, 11, 12, 15}

MethodSamples == {0, 1, 2, 3, 4, 5, 8}

\* A frame as the module sends it: a well-formed header for the triple and
\* the payload of the definition it addresses (v zero bytes if there is none).
WireFrame(mt, t, g, m, is_tx, v) ==
    LET search == IF mt = 0 THEN commands_def ELSE events_def
        packet_type == IF mt = 1 THEN TYPE_EVENT
                       ELSE IF is_tx THEN TYPE_COMMAND ELSE TYPE_RESPONSE
        payload == IF HasDefinition(search, t, g, m)
                   THEN build_payload(search.at[t].at[g].at[m], packet_type, v).data
                   ELSE Zeros(v)
        n == Len(payload)
    IN  Bytes(<<mt * 128 + t * 8 + (n \div 256), n % 256, g, m>> \o payload)

\* The bytes the transport may deliver at 0-based position pos of a frame.
ByteSamples(pos) ==
    CASE pos = 0 -> {0, 1, 4, 7, 32, 160}
      [] pos = 1 -> {0, 1, 255}
      [] pos \in {2, 3} -> {0, 1}
      [] OTHER -> {0}

\* Payload lengths of packets whose buffer is given a header directly.
PayloadLengthSamples == {0, 1, 255, 256, 1024, 2047, 2048, 4095}

\* Header fields of packets constructed directly from metadata.
HeaderTechnologySamples == {0, 1, 4, 15}

HeaderGroupSamples == {0, 255}

HeaderMethodSamples == {0, 1}

\* Names and frames of callers that call the class methods repeatedly, in
\* any order.
CallNames ==
    {"ble_cmd_system_hello", "ble_rsp_system_hello", "ble_foo_system_hello",
     "dumo_cmd_endpoint_send", "dumo_evt_endpoint_data", "dumo_cmd_system_",
     "hello"}

CallFrames ==
    {[buffer |-> WireFrame(0, 0, 0, 1, is_tx, 0), is_tx |-> is_tx] : is_tx \in BOOLEAN}
    \cup {[buffer |-> WireFrame(1, 4, 11, 1, FALSE, v), is_tx |-> FALSE] : v \in VarLens}
    \cup {[buffer |-> WireFrame(0, 4, 11, 0, TRUE, 0), is_tx |-> TRUE],
          [buffer |-> WireFrame(1, 4, 1, 5, FALSE, 0), is_tx |-> FALSE]}

\* Buffers handed to the frame detector between the calls.
CallBuffers ==
    {Bytes(<<>>), WireFrame(0, 0, 0, 1, TRUE, 0), WireFrame(1, 4, 11, 1, FALSE, 0)}

---------------------------------------------------------------------------
(* The state machine.                                                      *)

\* What a caller may ask of the protocol class: build a packet from a name
\* and valid arguments, or parse a frame received in a direction.
NameRequests ==
    {[kind |-> "name", name |-> name, v |-> v] :
        name \in NameSamples, v \in VarLens}

FrameRequests ==
    {[kind |-> "frame", buffer |-> WireFrame(mt, t, g, m, is_tx, v), is_tx |-> is_tx] :
        mt \in MessageTypeSamples, t \in TechnologySamples, g \in GroupSamples,
        m \in MethodSamples, is_tx \in BOOLEAN, v \in VarLens}

\* The state after the class body has run, with no packet built or parsed.
Loaded ==
    /\ buffer = Bytes(<<>>)
    /\ status = test_packet_complete(Bytes(<<>>))
    /\ commands = commands_def
    /\ events = events_def
    /\ tx = None
    /\ rx = None

Init == Loaded /\ request \in NameRequests \cup FrameRequests

\* Lines 335 and 380: a call that resolved a definition leaves header_args
\* on that definition in the class-level table.
StashFor(o, name, search) ==
    IF "table" \in DOMAIN o /\ o.table = name
    THEN Stash(search, o.metadata.technology_type, o.metadata.group_id,
               o.metadata.method_id)
    ELSE search

GetPacketFromBuffer(buf, is_tx) ==
    /\ LET o == get_packet_from_buffer(commands, events, buf, is_tx)
       IN  /\ rx' = o
           /\ commands' = StashFor(o, "commands", commands)
           /\ events' = StashFor(o, "events", events)
    /\ UNCHANGED <<buffer, status, request, tx>>

GetPacketFromNameAndArgs(name, v) ==
    /\ LET o == get_packet_from_name_and_args(commands, events, name, v)
       IN  /\ tx' = o
           /\ commands' = StashFor(o, "commands", commands)
           /\ events' = StashFor(o, "events", events)
    /\ UNCHANGED <<buffer, status, request, rx>>

\* The requested frame is parsed.
ParseWire ==
    /\ request.kind = "frame"
    /\ rx = None
    /\ GetPacketFromBuffer(request.buffer, request.is_tx)

\* The buffer of the packet just built is parsed back, in a direction for
\* which its payload is the payload of the parsed packet's type (the packet
\* class reads the payload by the argument list of that type).
ParseTx ==
    /\ IsPacket(tx)
    /\ \E is_tx \in BOOLEAN :
        /\ tx.type = TYPE_EVENT \/ is_tx = (tx.type = TYPE_COMMAND)
        /\ GetPacketFromBuffer(tx.buffer, is_tx)

\* The requested packet is built from its name and valid arguments.
BuildPacket ==
    /\ request.kind = "name"
    /\ tx = None
    /\ GetPacketFromNameAndArgs(request.name, request.v)

\* A packet is built from the name of the packet just parsed.
BuildFromRx ==
    /\ IsPacket(rx)
    /\ \E v \in VarLens : GetPacketFromNameAndArgs(rx.name, v)

Next == ParseWire \/ ParseTx \/ BuildPacket \/ BuildFromRx

Spec == Init /\ [][Next]_vars

\* The transport appends one received byte and re-evaluates the detector.
RxByte(b) ==
    /\ Len(buffer.data) < MaxBuf
    /\ buffer' = Bytes(Append(buffer.data, b))
    /\ status' = test_packet_complete(buffer')
    /\ UNCHANGED <<commands, events, request, tx, rx>>

\* The receive path alone: bytes accumulate in the buffer.
Receive == \E b \in ByteSamples(Len(buffer.data)) : RxByte(b)

InitStream == Loaded /\ request = None

SpecStream == InitStream /\ [][Receive]_vars

\* A packet object constructed directly from metadata and a serialized
\* payload, in the current module or the legacy one, before its header is
\* prepended.
HeaderRequests ==
    {[kind |-> "header", module |-> mod,
      metadata |-> [message_type |-> mt, technology_type |-> t,
                    group_id |-> g, method_id |-> m],
      payload |-> Bytes(Zeros(n))] :
        mod \in {"current", "legacy"}, mt \in MessageTypeSamples,
        t \in HeaderTechnologySamples, g \in HeaderGroupSamples,
        m \in HeaderMethodSamples, n \in PayloadLengthSamples}

\* The packet after prepare_buffer_after_building: its buffer now begins
\* with the header, or the call raised and the buffer is the payload still.
Prepared(built) ==
    IF built = StructError
    THEN [kind |-> "error", exception |-> "struct.error", module |-> request.module,
          metadata |-> request.metadata, payload |-> request.payload,
          buffer |-> request.payload]
    ELSE [kind |-> "packet", module |-> request.module,
          metadata |-> request.metadata, payload |-> request.payload,
          buffer |-> built]

PrepareBuffer ==
    /\ request.kind = "header"
    /\ request.module = "current"
    /\ tx = None
    /\ tx' = Prepared(prepare_buffer_after_building(request.metadata, request.payload))
    /\ UNCHANGED <<buffer, status, commands, events, request, rx>>

LegacyPrepareBuffer ==
    /\ request.kind = "header"
    /\ request.module = "legacy"
    /\ tx = None
    /\ tx' = Prepared(legacy_prepare_buffer_after_building(request.metadata,
                                                          request.payload))
    /\ UNCHANGED <<buffer, status, commands, events, request, rx>>

\* The receiving side unpacks the header of the buffer just produced.
DecodeHeader ==
    /\ IsPacket(tx)
    /\ tx.module = "current"
    /\ rx = None
    /\ rx' = [kind |-> "header", module |-> "current", buffer |-> tx.buffer,
              header |-> decode_header(tx.buffer)]
    /\ UNCHANGED <<buffer, status, commands, events, request, tx>>

LegacyDecodeHeader ==
    /\ IsPacket(tx)
    /\ tx.module = "legacy"
    /\ rx = None
    /\ rx' = [kind |-> "header", module |-> "legacy", buffer |-> tx.buffer,
              header |-> legacy_decode_header(tx.buffer)]
    /\ UNCHANGED <<buffer, status, commands, events, request, tx>>

InitHeader == Loaded /\ request \in HeaderRequests

NextHeader ==
    PrepareBuffer \/ LegacyPrepareBuffer \/ DecodeHeader \/ LegacyDecodeHeader

\* The header codec alone, on packets constructed directly.
SpecHeader == InitHeader /\ [][NextHeader]_vars

\* A caller builds a packet from a name; the call is remembered in request.
CallGetPacketFromNameAndArgs ==
    \E name \in CallNames, v \in VarLens :
        LET o == get_packet_from_name_and_args(commands, events, name, v)
        IN  /\ tx' = o
            /\ commands' = StashFor(o, "commands", commands)
            /\ events' = StashFor(o, "events", events)
            /\ request' = [kind |-> "name", name |-> name, v |-> v]
            /\ UNCHANGED <<buffer, status, rx>>

\* A caller parses a frame.
CallGetPacketFromBuffer ==
    \E f \in CallFrames :
        LET o == get_packet_from_buffer(commands, events, f.buffer, f.is_tx)
        IN  /\ rx' = o
            /\ commands' = StashFor(o, "commands", commands)
            /\ events' = StashFor(o, "events", events)
            /\ request' = [kind |-> "frame", buffer |-> f.buffer, is_tx |-> f.is_tx]
            /\ UNCHANGED <<buffer, status, tx>>

\* A caller asks the detector about a buffer.
CallTestPacketComplete ==
    \E buf \in CallBuffers :
        /\ buffer' = buf
        /\ status' = test_packet_complete(buf)
        /\ request' = [kind |-> "detect"]
        /\ UNCHANGED <<commands, events, tx, rx>>

InitCalls == Loaded /\ request = None

NextCalls ==
    \/ CallGetPacketFromNameAndArgs
    \/ CallGetPacketFromBuffer
    \/ CallTestPacketComplete

\* Any sequence of calls of the three class methods on one loaded class.
SpecCalls == InitCalls /\ [][NextCalls]_vars




---------------------------------------------------------------------------
(* Properties.                                                             *)

\* The 11-bit payload length a header declares: ((byte0 & 0x07) << 8) | byte1.
DeclaredLength(buf) ==
    BitOr(ShiftL(BitAnd(buf.data[1], 7), 8), buf.data[2])

\* The registry table as the class body defines it.
TableDef(table) == IF table = "commands" THEN commands_def ELSE events_def

\* The kind token a packet type is named with.
TypeToken(packet_type) ==
    CASE packet_type = TYPE_COMMAND -> "cmd"
      [] packet_type = TYPE_RESPONSE -> "rsp"
      [] packet_type = TYPE_EVENT -> "evt"

\* The key a packet's metadata addresses.
KeyOf(metadata) ==
    <<metadata.technology_type, metadata.group_id, metadata.method_id>>

\* The second underscore-separated token of a name ("" if there is none).
KindToken(name) ==
    IF Len(split(name, "_", 2)) >= 2 THEN split(name, "_", 2)[2] ELSE ""

\* C1: for every buffer of at least 4 bytes, test_packet_complete returns
\* IN_PROGRESS if and only if the buffer's length differs from 4 plus the
\* 11-bit payload length its header declares.
C1_InProgressIffLengthDiffers ==
    Len(buffer.data) >= 4 =>
        ((status = IN_PROGRESS) <=> (Len(buffer.data) # 4 + DeclaredLength(buffer)))

\* C2: the four-byte all-zero buffer is reported IDLE, and every other
\* buffer whose length is 4 plus its declared payload length is COMPLETE.
C2_ZeroHeaderIsIdle ==
    (Len(buffer.data) >= 4 /\ Len(buffer.data) = 4 + DeclaredLength(buffer)) =>
        status = (IF buffer.data = <<0, 0, 0, 0>> THEN IDLE ELSE COMPLETE)

\* C3: a packet built from a registry name with valid arguments, whose
\* buffer is parsed back (is_tx true exactly for a command), comes back as
\* a packet with the same name, the same triple and the same definition.
C3_RoundTrip ==
    (/\ IsPacket(tx)
     /\ tx.name \in RegistryNames
     /\ rx # None
     /\ rx.buffer = tx.buffer
     /\ rx.is_tx = (tx.type = TYPE_COMMAND))
    => (/\ IsPacket(rx)
        /\ rx.name = tx.name
        /\ KeyOf(rx.metadata) = KeyOf(tx.metadata)
        /\ rx.table = tx.table
        /\ rx.definition = tx.definition)

C3_Witness ==
    /\ request.kind = "name"
    /\ IsPacket(tx)
    /\ tx.name = "dumo_evt_system_recovery"
    /\ Len(tx.buffer.data) = 4 + 264
    /\ IsPacket(rx)
    /\ rx.buffer = tx.buffer
    /\ ~rx.is_tx
    /\ rx.name = tx.name

\* C4: every packet returned by either entry point is named
\* <technology>_<cmd|rsp|evt by its type>_<group>_<method> of the registry
\* entry its metadata addresses.
C4_NameDerivedFromMetadata ==
    \A o \in {tx, rx} :
        IsPacket(o) =>
            LET search == TableDef(IF o.type = TYPE_EVENT THEN "events" ELSE "commands")
                key == KeyOf(o.metadata)
            IN  /\ HasDefinition(search, key[1], key[2], key[3])
                /\ o.name = DottedName(search, TypeToken(o.type), key)

\* C5: a name whose second token is none of cmd, rsp, evt is refused with
\* PerilibProtocolException and no packet is returned.
C5_KindTokenChecked ==
    (/\ tx # None
     /\ Len(split(tx.requested, "_", 2)) = 3
     /\ KindToken(tx.requested) \notin {"cmd", "rsp", "evt"})
    => (IsError(tx) /\ tx.exception = "PerilibProtocolException")

\* C6: a name is resolved to a group only if the text after technology and
\* kind token starts with the group's name followed by an underscore.
C6_GroupFollowedByUnderscore ==
    IsPacket(tx) =>
        LET short_name == split(tx.requested, "_", 2)[3]
            group_name ==
                TableDef(tx.table).at[tx.metadata.technology_type]
                                  .at[tx.metadata.group_id].name
        IN  StrUpTo(short_name, Len(group_name) + 1) = group_name \o "_"

\* C7: names and triples correspond one to one: within a table and a kind
\* token no two triples derive the same name, and a packet built from the
\* name get_packet_from_buffer derived has that packet's table and triple.
C7_NameBijection ==
    /\ \A table \in {"commands", "events"} :
        LET search == IF table = "commands" THEN commands ELSE events
        IN  \A k1 \in Triples(search), k2 \in Triples(search) :
            \A token \in {"cmd", "rsp", "evt"} :
                packet_name(search, token, k1[1], k1[2], k1[3])
                    = packet_name(search, token, k2[1], k2[2], k2[3])
                => k1 = k2
    /\ (IsPacket(rx) /\ tx # None /\ tx.requested = rx.name)
       => (/\ IsPacket(tx)
           /\ tx.table = rx.table
           /\ KeyOf(tx.metadata) = KeyOf(rx.metadata)
           /\ tx.type = rx.type)

C7_Witness ==
    /\ request.kind = "frame"
    /\ IsPacket(rx)
    /\ rx.name = "dumo_evt_bt_connection_closed"
    /\ IsPacket(tx)
    /\ tx.requested = rx.name
    /\ KeyOf(tx.metadata) = <<4, 7, 1>>
    /\ tx.table = "events"

\* C8: bit 7 of byte 0 and the direction alone select the kind: bit 0 means
\* the commands table and a Command named cmd (is_tx) or a Response named
\* rsp (not is_tx); bit 1 means the events table and an Event named evt;
\* 00 00 00 01 received yields ble_rsp_system_hello.
C8_KindFromTypeBitAndDirection ==
    /\ IsPacket(rx) =>
        IF rx.buffer.data[1] \div 128 = 0
        THEN /\ rx.table = "commands"
             /\ rx.definition =
                    WithHeaderArgs(commands_def.at[(rx.buffer.data[1] \div 8) % 16]
                                               .at[rx.buffer.data[3]]
                                               .at[rx.buffer.data[4]])
             /\ rx.type = (IF rx.is_tx THEN TYPE_COMMAND ELSE TYPE_RESPONSE)
             /\ KindToken(rx.name) = (IF rx.is_tx THEN "cmd" ELSE "rsp")
        ELSE /\ rx.table = "events"
             /\ rx.definition =
                    WithHeaderArgs(events_def.at[(rx.buffer.data[1] \div 8) % 16]
                                             .at[rx.buffer.data[3]]
                                             .at[rx.buffer.data[4]])
             /\ rx.type = TYPE_EVENT
             /\ KindToken(rx.name) = "evt"
    /\ (rx # None /\ rx.buffer = Bytes(<<0, 0, 0, 1>>) /\ ~rx.is_tx)
       => (IsPacket(rx) /\ rx.name = "ble_rsp_system_hello")

C8_Witness ==
    /\ IsPacket(rx)
    /\ rx.buffer = Bytes(<<0, 0, 0, 1>>)
    /\ ~rx.is_tx
    /\ rx.type = TYPE_RESPONSE
    /\ rx.name = "ble_rsp_system_hello"

\* The header of a buffer addresses no definition of the table its
\* message-type bit selects.
AbsentTriple(buf) ==
    ~HasDefinition(IF buf.data[1] \div 128 = 0 THEN commands ELSE events,
                   (buf.data[1] \div 8) % 16, buf.data[3], buf.data[4])

\* C9: a get_packet_from_buffer call on a header whose triple is absent at
\* any level of the selected table raises PerilibProtocolException, returns
\* no packet and leaves both registry tables as they were before the call.
C9_UnknownTripleRaises ==
    [][(rx' # rx /\ AbsentTriple(rx'.buffer))
        => (/\ IsError(rx')
            /\ rx'.exception = "PerilibProtocolException"
            /\ commands' = commands
            /\ events' = events)]_vars

C9_Witness ==
    /\ IsError(rx)
    /\ rx.buffer.data[1] = 160
    /\ rx.buffer.data[3] = 1
    /\ rx.buffer.data[4] = 5
    /\ commands = commands_def
    /\ events = events_def

\* C10: the header values get_packet_from_buffer computes from a header
\* written by prepare_buffer_after_building are the encoder's inputs, the
\* payload length being the length of the payload.
C10_HeaderDecodeInvertsEncode ==
    (IsPacket(tx) /\ rx # None /\ rx.buffer = tx.buffer)
    => rx.header = [message_type |-> tx.metadata.message_type,
                    technology_type |-> tx.metadata.technology_type,
                    payload_length |-> Len(tx.buffer.data) - 4,
                    group_id |-> tx.metadata.group_id,
                    method_id |-> tx.metadata.method_id]

\* C11: prepare_buffer_after_building fails, and emits no header, whenever
\* the payload is longer than 2047 bytes; a header it does emit carries the
\* packet's own message type and technology type in byte 0, never length
\* bits in their place.
C11_PayloadTooLargeRejected ==
    (request.kind = "header" /\ request.module = "current" /\ tx # None)
    => /\ Len(request.payload.data) > 2047
            => (IsError(tx) /\ tx.buffer = request.payload)
       /\ IsPacket(tx)
            => /\ decode_message_type(tx.buffer.data[1])
                    = request.metadata.message_type
               /\ decode_technology_type(tx.buffer.data[1])
                    = request.metadata.technology_type

\* C12: every buffer prepare_buffer_after_building produces is a 4-byte
\* header followed by the unmodified payload, and the 11-bit length field of
\* the header equals the length of the buffer minus 4.
C12_LengthFieldIsPayloadLength ==
    (request.kind = "header" /\ request.module = "current" /\ IsPacket(tx))
    => /\ Len(tx.buffer.data) = Len(request.payload.data) + 4
       /\ SubSeq(tx.buffer.data, 5, Len(tx.buffer.data)) = request.payload.data
       /\ DeclaredLength(tx.buffer) = Len(tx.buffer.data) - 4

\* C16: in the legacy module, for technology types 0, 1 and 4, both message
\* types and payloads of 0..2047 bytes, prepare_buffer_after_building
\* succeeds and the header decoder extracts the message type and technology
\* type the encoder was given.
C16_LegacyHeaderRoundTrip ==
    (/\ request.kind = "header" /\ request.module = "legacy"
     /\ request.metadata.technology_type \in {0, 1, 4}
     /\ Len(request.payload.data) <= 2047
     /\ tx # None)
    => /\ IsPacket(tx)
       /\ rx # None
            => /\ rx.header.message_type = request.metadata.message_type
               /\ rx.header.technology_type = request.metadata.technology_type

\* A definition without the header_args entry.
StripDefinition(d) == [k \in DOMAIN d \ {"header_args"} |-> d[k]]

\* A registry table with header_args removed from every method definition.
StripTable(search) ==
    LET StripGroup(group) ==
            [group EXCEPT !.at = [m \in DOMAIN group.at |->
                                    StripDefinition(group.at[m])]]
        StripTechnology(technology) ==
            [technology EXCEPT !.at = [g \in DOMAIN technology.at |->
                                         StripGroup(technology.at[g])]]
    IN  [search EXCEPT !.at = [t \in DOMAIN search.at |->
                                 StripTechnology(search.at[t])]]

\* The keys (t, g, m) whose definition carries header_args.
Marked(search) ==
    {key \in Triples(search) :
        "header_args" \in DOMAIN search.at[key[1]].at[key[2]].at[key[3]]}

ResolvedBy(o, table) ==
    IF "table" \in DOMAIN o /\ o.table = table THEN {KeyOf(o.metadata)} ELSE {}

\* One call of get_packet_from_name_and_args or get_packet_from_buffer, on a
\* registry with any history: what it may change and what it returns.
HistoryIndependentCall ==
    LET o == CASE request'.kind = "name" -> tx'
               [] request'.kind = "frame" -> rx'
               [] OTHER -> None
    IN  /\ StripTable(commands') = StripTable(commands)
        /\ StripTable(events') = StripTable(events)
        /\ Marked(commands') = Marked(commands) \cup ResolvedBy(o, "commands")
        /\ Marked(events') = Marked(events) \cup ResolvedBy(o, "events")
        /\ \A key \in Marked(commands') :
            commands'.at[key[1]].at[key[2]].at[key[3]].header_args = header_args
        /\ \A key \in Marked(events') :
            events'.at[key[1]].at[key[2]].at[key[3]].header_args = header_args
        /\ request'.kind = "name"
            => o = get_packet_from_name_and_args(commands_def, events_def,
                                                 request'.name, request'.v)
        /\ request'.kind = "frame"
            => o = get_packet_from_buffer(commands_def, events_def,
                                          request'.buffer, request'.is_tx)

\* C18: history independence of lookups: whatever calls succeeded or failed
\* before, (1) a call changes the registry only by leaving header_args, equal
\* to SilabsBGAPIProtocol.header_args, on the method definition it resolved,
\* names, argument lists, groups and technologies untouched, and (2) it
\* returns the outcome the same call returns on a freshly loaded registry.
C18_HistoryIndependentLookups == [][HistoryIndependentCall]_vars

\* A name was resolved to a definition that an earlier parse had already
\* resolved, on a registry whose other table has been through a call too.
C18_Witness ==
    /\ request.kind = "name"
    /\ IsPacket(tx) /\ IsPacket(rx)
    /\ tx.table = rx.table
    /\ KeyOf(tx.metadata) = KeyOf(rx.metadata)
    /\ Marked(commands) # {}
    /\ Marked(events) # {}

\* C14: while the bytes of one well-formed frame (a non-zero 4-byte header
\* declaring L in 0..2047, then L payload bytes) arrive one at a time, the
\* detector says IN_PROGRESS for every strict prefix, also those shorter
\* than 4 bytes, and COMPLETE only when all 4 + L bytes are held.
C14_CompleteOnlyAtFullFrame ==
    /\ Len(buffer.data) < 4 => status = IN_PROGRESS
    /\ (/\ Len(buffer.data) >= 4
        /\ SubSeq(buffer.data, 1, 4) # <<0, 0, 0, 0>>
        /\ Len(buffer.data) <= 4 + DeclaredLength(buffer))
       => /\ Len(buffer.data) < 4 + DeclaredLength(buffer) => status = IN_PROGRESS
          /\ Len(buffer.data) = 4 + DeclaredLength(buffer) => status = COMPLETE

\* The buffer holds more bytes than its header and declared payload.
Overrun(buf) ==
    Len(buf.data) > 4 /\ Len(buf.data) > 4 + DeclaredLength(buf)

\* C15: no recovery after overrun: for a buffer longer than 4 plus its
\* declared length the detector returns IN_PROGRESS, and so it does for every
\* extension; an evaluation leaves the bytes already held in place, so the
\* overrun lasts for as long as the caller keeps the buffer.
C15_NoRecoveryAfterOverrun ==
    [][/\ Overrun(buffer') => status' = IN_PROGRESS
       /\ Overrun(buffer)
            => /\ Overrun(buffer')
               /\ SubSeq(buffer'.data, 1, Len(buffer.data)) = buffer.data]_vars

\* Two bytes past a frame whose declared length needs the eleventh bit.
C15_Witness ==
    /\ Len(buffer.data) > 3
    /\ DeclaredLength(buffer) >= 1024
    /\ Len(buffer.data) = 4 + DeclaredLength(buffer) + 2
    /\ status = IN_PROGRESS

\* The command triples whose definition names the response name.
Responders(name) ==
    {key \in Triples(commands) :
        commands.at[key[1]].at[key[2]].at[key[3]].response_required = name}

\* C17: every command definition's response_required is
\* <technology>_rsp_<group>_<method> of its own triple; resolving it with
\* get_packet_from_name_and_args gives the command's triple, and it is the
\* name get_packet_from_buffer gives a received (is_tx false) buffer that
\* carries the triple.
C17_ResponseRequiredPairsWithCommand ==
    /\ \A key \in Triples(commands) :
        commands.at[key[1]].at[key[2]].at[key[3]].response_required
            = DottedName(commands, "rsp", key)
    /\ (tx # None /\ Responders(tx.requested) # {})
       => /\ IsPacket(tx)
          /\ tx.type = TYPE_RESPONSE
          /\ Responders(tx.requested) = {KeyOf(tx.metadata)}
    /\ (IsPacket(rx) /\ rx.table = "commands" /\ ~rx.is_tx)
       => /\ rx.name = rx.definition.response_required
          /\ Responders(rx.name) = {KeyOf(rx.metadata)}

\* A command's response_required has been resolved by name, and a received
\* buffer with the command's triple has been parsed.
C17_Witness ==
    /\ IsPacket(tx) /\ IsPacket(rx)
    /\ tx.requested = "dumo_rsp_endpoint_send"
    /\ KeyOf(tx.metadata) = <<4, 11, 0>>
    /\ ~rx.is_tx
    /\ rx.table = "commands"
    /\ KeyOf(rx.metadata) = <<4, 11, 0>>


=============================================================================
